---- MODULE Spec2Model ----
(***************************************************************************)
(* State-machine model of the ETL pipeline of ETL_CHATBOT:                 *)
(*   scripts/etl.py          doc_to_chunks, extract_text_from_image        *)
(*   scripts/etl_runner.py   run_etl, load/save_ingested_map               *)
(*   scripts/drive_utils.py  download_file                                 *)
(*   scripts/vectorstore.py  create_chroma_from_chunks                     *)
(* Strings are sequences of one-character strings, so that whitespace      *)
(* normalisation, splitting and joining are computed and not assumed.      *)
(***************************************************************************)
EXTENDS Integers, Sequences, FiniteSets, TLC

\* ------------------------------------------------------------------ bounds
MaxTextLen == 6
MaxChunkSize == 4
MaxOverlapSteps == 4
MaxFiles == 2
MaxRuns == 2
MaxFaults == 2
MaxCalls == 2

\* ------------------------------------------------------- program constants
OverlapDivisor == 10
DefaultChunkSize == 800
DefaultOverlap == 100

\* ------------------------------------------------------------ python helpers
Min(a, b) == IF a < b THEN a ELSE b
Max(a, b) == IF a > b THEN a ELSE b

\* the characters texts are made of; " " is the only whitespace character
Chars == {"a", "b", " "}
IsSpace(c) == c = " "

SeqsUpTo(S, n) == UNION {[1..k -> S] : k \in 0..n}

\* str.strip(): drop leading and trailing whitespace
RECURSIVE LStrip(_)
LStrip(s) == IF s # <<>> /\ IsSpace(Head(s)) THEN LStrip(Tail(s)) ELSE s
RECURSIVE RStrip(_)
RStrip(s) ==
    IF s # <<>> /\ IsSpace(s[Len(s)]) THEN RStrip(SubSeq(s, 1, Len(s) - 1)) ELSE s
Strip(s) == RStrip(LStrip(s))

\* re.sub(r"\s+", " ", text): every run of whitespace becomes one space
RECURSIVE CollapseSpaces(_)
CollapseSpaces(s) ==
    IF s = <<>> THEN <<>>
    ELSE IF IsSpace(Head(s))
         THEN <<" ">> \o CollapseSpaces(LStrip(s))
         ELSE <<Head(s)>> \o CollapseSpaces(Tail(s))

\* etl.py:181  text = re.sub(r"\s+", " ", text).strip()
Normalize(s) == Strip(CollapseSpaces(s))

\* str.split(): the maximal runs of non-whitespace characters
RECURSIVE SplitAcc(_, _)
SplitAcc(s, cur) ==
    IF s = <<>> THEN (IF cur = <<>> THEN <<>> ELSE <<cur>>)
    ELSE IF IsSpace(Head(s))
         THEN (IF cur = <<>> THEN <<>> ELSE <<cur>>) \o SplitAcc(Tail(s), <<>>)
         ELSE SplitAcc(Tail(s), Append(cur, Head(s)))
Split(s) == SplitAcc(s, <<>>)

\* " ".join(ws)
RECURSIVE Join(_)
Join(ws) ==
    IF ws = <<>> THEN <<>>
    ELSE IF Len(ws) = 1 THEN ws[1]
    ELSE ws[1] \o <<" ">> \o Join(Tail(ws))

\* lst[start:] with Python's treatment of negative and out-of-range starts
PySliceFrom(lst, start) ==
    LET n == Len(lst)
        lo == IF start < 0 THEN Max(n + start, 0) ELSE Min(start, n)
    IN SubSeq(lst, lo + 1, n)

\* sum(len(w) + 1 for w in ws)
RECURSIVE SumLen(_)
SumLen(ws) == IF ws = <<>> THEN 0 ELSE Len(Head(ws)) + 1 + SumLen(Tail(ws))

\* ------------------------------------------------------------------ chunker
\* etl.py:206  the slice start  -overlap//10 : unary minus binds tighter than //
SeedStart(overlap) == (0 - overlap) \div OverlapDivisor

\* etl.py:206  current_chunk[-overlap//10:]
OverlapSeed(current_chunk, overlap) == PySliceFrom(current_chunk, SeedStart(overlap))

\* etl.py:195-203 / 210-218  the chunk dictionary
MakeChunk(doc_id, path, n, ws) ==
    [id |-> <<doc_id, "chunk", n>>,
     text |-> Join(ws),
     metadata |-> [source |-> path, doc_id |-> doc_id, chunk_index |-> n]]

\* etl.py:190  the test that decides between appending and closing
Fits(st, word, size) == st.current_length + Len(word) + 1 <= size

\* etl.py:183-187  the loop's initial state
ChunkInit == [current_chunk |-> <<>>, current_length |-> 0, chunks |-> <<>>, cid |-> 0]

\* mutant: the running length is reset to zero when a new chunk is started
ChunkStep_LengthReset(st, word, doc_id, path, size, overlap) ==
    IF Fits(st, word, size)
    THEN [st EXCEPT !.current_chunk = Append(@, word),
                    !.current_length = @ + Len(word) + 1]
    ELSE [current_chunk |-> OverlapSeed(st.current_chunk, overlap) \o <<word>>,
          current_length |-> 0,
          chunks |-> Append(st.chunks,
                            MakeChunk(doc_id, path, st.cid, st.current_chunk)),
          cid |-> st.cid + 1]

\* etl.py:190-207  one iteration of the loop over the words
ChunkStep(st, word, doc_id, path, size, overlap) ==
    IF Fits(st, word, size)
    THEN [st EXCEPT !.current_chunk = Append(@, word),
                    !.current_length = @ + Len(word) + 1]
    ELSE LET next == OverlapSeed(st.current_chunk, overlap) \o <<word>>
         IN [current_chunk |-> next,
             current_length |-> SumLen(next),
             chunks |-> Append(st.chunks,
                               MakeChunk(doc_id, path, st.cid, st.current_chunk)),
             cid |-> st.cid + 1]

\* etl.py:209-218  the final partial accumulation
ChunkFlush(st, doc_id, path) ==
    IF st.current_chunk # <<>>
    THEN Append(st.chunks, MakeChunk(doc_id, path, st.cid, st.current_chunk))
    ELSE st.chunks

RECURSIVE ChunkLoop(_, _, _, _, _, _)
ChunkLoop(st, ws, doc_id, path, size, overlap) ==
    IF ws = <<>> THEN st
    ELSE ChunkLoop(ChunkStep(st, Head(ws), doc_id, path, size, overlap),
                   Tail(ws), doc_id, path, size, overlap)

\* etl.py:176-221  doc_to_chunks on the text extract_from_file returned
ChunkText(txt, doc_id, path, size, overlap) ==
    IF Strip(txt) = <<>> THEN <<>>
    ELSE ChunkFlush(ChunkLoop(ChunkInit, Split(Normalize(txt)),
                              doc_id, path, size, overlap),
                    doc_id, path)

\* --------------------------------------------------------------- variables
\* doc_to_chunks: its arguments, its locals and its position
VARIABLES text, chunk_size, overlap, words, wi, ck, cpc
\* the world run_etl works on: the Drive folder, the staging directory, the
\* ingested-map file, the number of runs made, and the number of operations
\* (service, download, index, save) that have failed so far
VARIABLES folder, drive, staged, persisted, runs, faults
\* run_etl: its locals, its position, what it printed, the ingested-map file
\* as it was when the run started, and the summary of the run before
VARIABLES files, ingested, all_chunks, fi, pc, log, at_start, prev

\* extract_text_from_image: the temporary image file, the locals, the position,
\* the OCR stages attempted so far in this call, and the number of calls made
\* and what the last call returned
VARIABLES temp_file, processed_path, otext, opc, stages, calls, oret

cvars == <<text, chunk_size, overlap, words, wi, ck, cpc>>
ovars == <<temp_file, processed_path, otext, opc, stages, calls, oret>>
wvars == <<folder, drive, staged, persisted, runs, faults>>
rvars == <<files, ingested, all_chunks, fi, pc, log, at_start, prev>>
vars == <<cvars, ovars, wvars, rvars>>

None == "None"

\* doc_to_chunks not called
CIdle ==
    /\ text = <<>> /\ chunk_size = DefaultChunkSize /\ overlap = DefaultOverlap
    /\ words = <<>> /\ wi = 1 /\ ck = ChunkInit /\ cpc = "idle"

\* extract_text_from_image not called
OIdle ==
    /\ temp_file = FALSE /\ processed_path = None /\ otext = <<>>
    /\ opc = "idle" /\ stages = <<>> /\ calls = 0 /\ oret = <<>>

\* ------------------------------------------------------------------ run_etl
\* a path of the file system: nothing there, or a file and what it holds
NoFile == [exists |-> FALSE, content |-> <<>>]
File(c) == [exists |-> TRUE, content |-> c]
FileIds == {"f1", "f2"}
EmptyMap == [x \in {} |-> None]
\* the ingested-map file: missing, not parseable as JSON, or the JSON of a map
NoMapFile == [kind |-> "missing", map |-> EmptyMap]
CorruptMapFile == [kind |-> "corrupt", map |-> EmptyMap]
MapFile(m) == [kind |-> "json", map |-> m]

\* what a file of the Drive folder may hold: a word, or a letter followed by a
\* byte ("x") that is not valid UTF-8
DocTexts == {<<"a", "b">>, <<"a", "x">>}
\* the parts of a content that an interrupted download may have written
Prefixes(s) == {SubSeq(s, 1, k) : k \in 0..(Len(s) - 1)}

\* etl.py:154-162  extract_from_file on a staged plain file: its text, or ""
\* when it does not decode as UTF-8 or is missing
ExtractFromFile(file) ==
    IF ~file.exists THEN <<>>
    ELSE IF \E k \in 1..Len(file.content) : file.content[k] = "x" THEN <<>>
    ELSE file.content

\* etl.py:172-226  doc_to_chunks(local_path, fid, chunk_size) with overlap=100
DocToChunks(file, doc_id, path, size) ==
    ChunkText(ExtractFromFile(file), doc_id, path, size, DefaultOverlap)

\* etl_runner.py:16-24  load_ingested_map: {} when missing or unreadable
LoadIngestedMap(file) == IF file.kind = "json" THEN file.map ELSE EmptyMap

\* mutant: the markers are compared with "is", which is false of two equal
\* strings that come from two JSON documents
IsCurrent_Identity(m, fid, modified) == fid \in DOMAIN m /\ FALSE

\* etl_runner.py:76  fid in ingested and ingested[fid] == modified
IsCurrent(m, fid, modified) == fid \in DOMAIN m /\ m[fid] = modified

\* mutant: the file is not recorded as up to date
MapSet_Forget(m, fid, v) == m

\* etl_runner.py:106  ingested[fid] = modified
MapSet(m, fid, v) == [x \in DOMAIN m \cup {fid} |-> IF x = fid THEN v ELSE m[x]]

\* mutant: the test of the chunk list is lost
NoChunks_Never(chunks) == FALSE

\* etl_runner.py:95  not chunks
NoChunks(chunks) == chunks = <<>>

\* etl_runner.py:81  the staging path of a file
LocalPath(f) == <<f.id, f.name>>

\* etl_runner.py:99-104  the provenance stamped on a chunk
Annotate(c, f) ==
    [id |-> c.id, text |-> c.text,
     metadata |-> [source |-> c.metadata.source, doc_id |-> c.metadata.doc_id,
                   chunk_index |-> c.metadata.chunk_index,
                   file_name |-> f.name, mimeType |-> f.mimeType,
                   modifiedTime |-> f.modifiedTime]]
AnnotateAll(cs, f) == [i \in 1..Len(cs) |-> Annotate(cs[i], f)]

\* mutant: a file that fails ends the loop (break instead of continue)
LoopAdvance_Break(i, n, failed) == IF failed THEN n + 1 ELSE i + 1

\* etl_runner.py:66,74,78,87,90,97,110  the for loop goes on with the next file
\* whatever happened to this one
LoopAdvance(i, n, failed) == i + 1

\* drive_utils.py:67-95  download_file: what is at dest_path afterwards.
\* "ok": the whole content; "early": it failed before the destination was opened,
\* what was there stays; "late": it failed after io.FileIO(dest_path, "wb")
\* truncated the destination, some part p of the content was written
Downloaded(old, content, how, p) ==
    CASE how = "ok" -> File(content)
      [] how = "early" -> old
      [] how = "late" -> File(p)

\* vectorstore.py:22-28  the documents made of the chunks with a non-blank text
Documents(cs) ==
    {<<cs[i].metadata.doc_id, cs[i].metadata.chunk_index,
       cs[i].metadata.modifiedTime, Strip(cs[i].text)>> :
         i \in {k \in 1..Len(cs) : Strip(cs[k].text) # <<>>}}

\* drive_utils.py:50-58  the records list_files_in_folder returns
Listing ==
    [i \in 1..Len(folder) |->
        IF folder[i] = None
        THEN [id |-> None, name |-> "Unnamed", mimeType |-> "text/plain",
              modifiedTime |-> 0]
        ELSE [id |-> folder[i], name |-> "doc.txt", mimeType |-> "text/plain",
              modifiedTime |-> drive[folder[i]].modifiedTime]]

NoDuplicateIds(s) ==
    \A i, j \in 1..Len(s) : (i # j /\ s[i] = s[j]) => s[i] = None

\* the ids of the files of a folder
IdsOf(s) == {s[i] : i \in 1..Len(s)} \ {None}

\* what is remembered of the run before: the Drive folder it saw and the kinds
\* of message it printed
Tags(l) == {l[i][1] : i \in 1..Len(l)}
\* the messages about one file of the listing
FileTags == {"skip_noid", "skip_unchanged", "downloading", "dl_ok", "dl_error",
             "dl_missing", "extract", "no_text", "processed"}
\* the ids of the files about which this run printed the message tag
IdsLogged(tag) ==
    {files[j].id : j \in {k \in 1..Len(files) :
                              \E i \in 1..Len(log) : log[i] = <<tag, k>>}}
\* empty: the files that gave no chunk in some run and have given none since
NoRun == [drive |-> <<>>, tags |-> {}, empty |-> {}]
Summary ==
    [drive |-> drive, tags |-> Tags(log),
     empty |-> (prev.empty \cup IdsLogged("no_text")) \ IdsLogged("processed")]
\* the folder lists f2 only after f1: the two ids are interchangeable
Canonical(s) ==
    \A i \in 1..Len(s) : s[i] = "f2" => \E j \in 1..(i - 1) : s[j] = "f1"

\* the files of run_etl as they are before the first run
RIdle ==
    /\ folder = <<>> /\ drive = <<>> /\ staged = <<>>
    /\ persisted = NoMapFile /\ runs = 0 /\ faults = 0
    /\ files = <<>> /\ ingested = EmptyMap /\ all_chunks = <<>> /\ fi = 1
    /\ pc = "idle" /\ log = <<>> /\ at_start = NoMapFile /\ prev = NoRun

\* a Drive folder with some files, nothing staged, no ingested map, an empty index
RInit ==
    /\ folder \in {s \in SeqsUpTo(FileIds \cup {None}, MaxFiles) :
                       NoDuplicateIds(s) /\ Canonical(s)}
    /\ drive \in [IdsOf(folder) -> [modifiedTime : {1}, content : DocTexts]]
    /\ staged = [x \in IdsOf(folder) |-> NoFile]
    /\ persisted = NoMapFile /\ runs = 0 /\ faults = 0
    /\ files = <<>> /\ ingested = EmptyMap /\ all_chunks = <<>> /\ fi = 1
    /\ pc = "idle" /\ log = <<>> /\ at_start = NoMapFile /\ prev = NoRun

\* the owner of the Drive folder edits a file between two runs (edits before
\* the first run, and several edits of a file between two runs, are seen by
\* run_etl as one state of the folder)
DriveModify(fid) ==
    /\ pc = "idle" /\ 1 <= runs /\ runs < MaxRuns
    /\ fid \in DOMAIN drive
    /\ drive[fid].modifiedTime <= runs
    /\ \E c \in DocTexts :
          drive' = [drive EXCEPT ![fid] = [modifiedTime |-> @.modifiedTime + 1,
                                           content |-> c]]
    /\ UNCHANGED <<folder, staged, persisted, runs, faults, rvars, cvars, ovars>>

\* etl_runner.py:39-61  a run that ends before the loop: no service (the listing
\* is then empty), a listing error, an empty folder, no embeddings provider
RunAbort ==
    /\ pc = "idle" /\ runs < MaxRuns
    /\ IF Listing = <<>> THEN faults' = faults
       ELSE faults < MaxFaults /\ faults' = faults + 1
    /\ log' = <<<<"aborted", 0>>>>
    /\ pc' = "done"
    /\ UNCHANGED <<files, ingested, all_chunks, fi, at_start, prev,
                   folder, drive, staged, persisted, runs, cvars, ovars>>

\* etl_runner.py:39-64  the start of a run that reaches the loop
RunStart ==
    /\ pc = "idle" /\ runs < MaxRuns
    /\ Listing # <<>>
    /\ files' = Listing
    /\ ingested' = LoadIngestedMap(persisted)
    /\ pc' = "loop"
    /\ UNCHANGED <<all_chunks, fi, log, at_start, prev, wvars, cvars, ovars>>

\* etl_runner.py:72-74  a file without an id is skipped
FileNoId ==
    /\ pc = "loop" /\ fi <= Len(files)
    /\ files[fi].id = None
    /\ log' = Append(log, <<"skip_noid", fi>>)
    /\ fi' = LoopAdvance(fi, Len(files), TRUE)
    /\ UNCHANGED <<files, ingested, all_chunks, pc, at_start, prev, wvars, cvars, ovars>>

\* etl_runner.py:76-78  an unchanged file is skipped
FileUnchanged ==
    /\ pc = "loop" /\ fi <= Len(files)
    /\ files[fi].id # None
    /\ IsCurrent(ingested, files[fi].id, files[fi].modifiedTime)
    /\ log' = Append(log, <<"skip_unchanged", fi>>)
    /\ fi' = LoopAdvance(fi, Len(files), FALSE)
    /\ UNCHANGED <<files, ingested, all_chunks, pc, at_start, prev, wvars, cvars, ovars>>

\* etl_runner.py:80-110  a dirty file is downloaded, extracted, chunked,
\* annotated and accumulated; how the download goes is the environment's choice
FileProcess ==
    /\ pc = "loop" /\ fi <= Len(files)
    /\ files[fi].id # None
    /\ ~IsCurrent(ingested, files[fi].id, files[fi].modifiedTime)
    /\ \E how \in {"ok", "early", "late"} :
       \E p \in Prefixes(drive[files[fi].id].content) :
          LET f == files[fi]
              fid == f.id
              now == Downloaded(staged[fid], drive[fid].content, how, p)
              dl == <<<<"downloading", fi>>,
                      <<(IF how = "ok" THEN "dl_ok" ELSE "dl_error"), fi>>>>
              chunks == DocToChunks(now, fid, LocalPath(f), DefaultChunkSize)
          IN /\ (how # "late" => p = <<>>)
             /\ IF how = "ok" THEN faults' = faults
                ELSE faults < MaxFaults /\ faults' = faults + 1
             /\ staged' = [staged EXCEPT ![fid] = now]
             /\ IF ~now.exists
                THEN \* etl_runner.py:85-87  nothing at local_path
                     /\ log' = log \o dl \o <<<<"dl_missing", fi>>>>
                     /\ fi' = LoopAdvance(fi, Len(files), TRUE)
                     /\ UNCHANGED <<ingested, all_chunks>>
                ELSE IF NoChunks(chunks)
                THEN \* etl_runner.py:94-97  no text
                     /\ log' = log \o dl \o <<<<"extract", fi>>, <<"no_text", fi>>>>
                     /\ fi' = LoopAdvance(fi, Len(files), TRUE)
                     /\ UNCHANGED <<ingested, all_chunks>>
                ELSE \* etl_runner.py:99-107
                     /\ all_chunks' = all_chunks \o AnnotateAll(chunks, f)
                     /\ ingested' = MapSet(ingested, fid, f.modifiedTime)
                     /\ log' = log \o dl \o <<<<"extract", fi>>, <<"processed", fi>>>>
                     /\ fi' = LoopAdvance(fi, Len(files), FALSE)
    /\ UNCHANGED <<files, pc, at_start, prev, folder, drive, persisted, runs,
                   cvars, ovars>>

\* etl_runner.py:66  the loop is over
LoopEnd ==
    /\ pc = "loop" /\ fi > Len(files)
    /\ pc' = "index"
    /\ UNCHANGED <<files, ingested, all_chunks, fi, log, at_start, prev, wvars, cvars, ovars>>

\* etl_runner.py:124-125  nothing to index
IndexNothing ==
    /\ pc = "index" /\ all_chunks = <<>>
    /\ log' = Append(log, <<"no_new_chunks", 0>>)
    /\ pc' = "save"
    /\ UNCHANGED <<files, ingested, all_chunks, fi, at_start, prev, wvars, cvars, ovars>>

\* etl_runner.py:115-119, vectorstore.py:12-56  the batch is indexed
IndexOk ==
    /\ pc = "index" /\ all_chunks # <<>>
    /\ Documents(all_chunks) # {}
    /\ log' = Append(log, <<"index_ok", Cardinality(Documents(all_chunks))>>)
    /\ pc' = "save"
    /\ UNCHANGED <<files, ingested, all_chunks, fi, at_start, prev, wvars, cvars, ovars>>

\* etl_runner.py:120-123, vectorstore.py:32-34,58-64  create_chroma_from_chunks
\* returns None: no valid document, or the store or the embeddings failed
IndexFail ==
    /\ pc = "index" /\ all_chunks # <<>>
    /\ IF Documents(all_chunks) = {} THEN faults' = faults
       ELSE faults < MaxFaults /\ faults' = faults + 1
    /\ log' = Append(log, <<"index_failed", Len(all_chunks)>>)
    /\ pc' = "save"
    /\ UNCHANGED <<files, ingested, all_chunks, fi, at_start, prev,
                   folder, drive, staged, persisted, runs, cvars, ovars>>

\* etl_runner.py:27-34  what the ingested-map file holds after save_ingested_map:
\* "ok": the map; "early": makedirs or open failed, the file is as it was;
\* "late": json.dump failed after open(..., "w") truncated the file
Saved(old, m, how) ==
    CASE how = "ok" -> MapFile(m)
      [] how = "early" -> old
      [] how = "late" -> CorruptMapFile

\* etl_runner.py:127-131  the ingested map is saved, whatever the index did
SaveMap ==
    /\ pc = "save"
    /\ \E how \in {"ok", "early", "late"} :
          /\ persisted' = Saved(persisted, ingested, how)
          /\ IF how = "ok" THEN faults' = faults
             ELSE faults < MaxFaults /\ faults' = faults + 1
          /\ log' = IF how = "ok" THEN log ELSE Append(log, <<"save_failed", 0>>)
    /\ pc' = "done"
    /\ UNCHANGED <<files, ingested, all_chunks, fi, at_start, prev,
                   folder, drive, staged, runs, cvars, ovars>>

\* etl_runner.py:44,50,54,61,133  run_etl returns
RunReturn ==
    /\ pc = "done"
    /\ pc' = "idle"
    /\ runs' = runs + 1
    /\ prev' = Summary
    /\ files' = <<>> /\ ingested' = EmptyMap /\ all_chunks' = <<>> /\ fi' = 1
    /\ log' = <<>> /\ at_start' = persisted
    /\ UNCHANGED <<folder, drive, staged, persisted, faults, cvars, ovars>>

Next ==
    \/ \E fid \in FileIds : DriveModify(fid)
    \/ RunAbort
    \/ RunStart
    \/ FileNoId
    \/ FileUnchanged
    \/ FileProcess
    \/ LoopEnd
    \/ IndexNothing
    \/ IndexOk
    \/ IndexFail
    \/ SaveMap
    \/ RunReturn

Init ==
    RInit /\ CIdle /\ OIdle

Spec == Init /\ [][Next]_vars


\* ------------------------------------------------- extract_text_from_image
\* what pytesseract.image_to_string may give back
OcrTexts == {<<>>, <<" ">>, <<"a">>, <<" ", "a", " ">>}
TempPath == "temp_ocr.png"

\* every stage calls OCR, which leaves text everywhere
Blank_Always(t) == TRUE

\* etl.py:117,122  not text.strip()
Blank(t) == Strip(t) = <<>>

\* one OCR attempt: the stage, what image_to_string gave, whether it raised
Attempt(stage, out, raised) == [stage |-> stage, out |-> out, raised |-> raised]

\* etl.py:105-109  the function is called on an image
OcrCall ==
    /\ opc \in {"idle", "returned"} /\ calls < MaxCalls
    /\ calls' = calls + 1
    /\ opc' = "preprocess"
    /\ processed_path' = None /\ otext' = <<>> /\ stages' = <<>> /\ oret' = <<>>
    /\ UNCHANGED <<temp_file, cvars, wvars, rvars>>

\* etl.py:79-99,108-109  preprocess_image_for_ocr: the image cannot be read or an
\* OpenCV step raises (None is returned), or cv2.imwrite writes the temporary
\* file, or cv2.imwrite reports failure by returning False and writes nothing
Preprocess ==
    /\ opc = "preprocess"
    /\ \E how \in {"unreadable", "error", "written", "not_written"} :
          /\ processed_path' = IF how \in {"written", "not_written"} THEN TempPath ELSE None
          /\ temp_file' = IF how = "written" THEN TRUE ELSE temp_file
    /\ otext' = <<>>
    /\ opc' = "stage1"
    /\ UNCHANGED <<stages, calls, oret, cvars, wvars, rvars>>

\* etl.py:112  the preprocessed image is there
HasProcessed == processed_path # None /\ temp_file

\* etl.py:112-114  OCR of the preprocessed image, then os.remove of it
Stage1Ocr ==
    /\ opc = "stage1" /\ HasProcessed
    /\ \E t \in OcrTexts : otext' = t
    /\ temp_file' = FALSE
    /\ stages' = Append(stages, Attempt("processed", otext', FALSE))
    /\ opc' = "stage2"
    /\ UNCHANGED <<processed_path, calls, oret, cvars, wvars, rvars>>

\* etl.py:112  there is no preprocessed image
Stage1Skip ==
    /\ opc = "stage1" /\ ~HasProcessed
    /\ opc' = "stage2"
    /\ UNCHANGED <<temp_file, processed_path, otext, stages, calls, oret,
                   cvars, wvars, rvars>>

\* etl.py:113,133-136  Image.open or image_to_string raises on the preprocessed
\* image: the handler returns "", os.remove is not reached
Stage1Raise ==
    /\ opc = "stage1" /\ HasProcessed
    /\ stages' = Append(stages, Attempt("processed", <<>>, TRUE))
    /\ oret' = <<>>
    /\ opc' = "returned"
    /\ UNCHANGED <<temp_file, processed_path, otext, calls, cvars, wvars, rvars>>

\* etl.py:117-119  OCR of the original image
Stage2Ocr ==
    /\ opc = "stage2" /\ Blank(otext)
    /\ \E t \in OcrTexts : otext' = t
    /\ stages' = Append(stages, Attempt("original", otext', FALSE))
    /\ opc' = "stage3"
    /\ UNCHANGED <<temp_file, processed_path, calls, oret, cvars, wvars, rvars>>

\* etl.py:117  there is text already
Stage2Skip ==
    /\ opc = "stage2" /\ ~Blank(otext)
    /\ opc' = "stage3"
    /\ UNCHANGED <<temp_file, processed_path, otext, stages, calls, oret,
                   cvars, wvars, rvars>>

\* etl.py:119,133-136  OCR of the original image raises
Stage2Raise ==
    /\ opc = "stage2" /\ Blank(otext)
    /\ stages' = Append(stages, Attempt("original", <<>>, TRUE))
    /\ oret' = <<>>
    /\ opc' = "returned"
    /\ UNCHANGED <<temp_file, processed_path, otext, calls, cvars, wvars, rvars>>

\* etl.py:122-124  OCR of the original image with --psm 6
Stage3Ocr ==
    /\ opc = "stage3" /\ Blank(otext)
    /\ \E t \in OcrTexts : otext' = t
    /\ stages' = Append(stages, Attempt("psm6", otext', FALSE))
    /\ opc' = "return"
    /\ UNCHANGED <<temp_file, processed_path, calls, oret, cvars, wvars, rvars>>

\* etl.py:122  there is text already
Stage3Skip ==
    /\ opc = "stage3" /\ ~Blank(otext)
    /\ opc' = "return"
    /\ UNCHANGED <<temp_file, processed_path, otext, stages, calls, oret,
                   cvars, wvars, rvars>>

\* etl.py:124,133-136  OCR with --psm 6 raises
Stage3Raise ==
    /\ opc = "stage3" /\ Blank(otext)
    /\ stages' = Append(stages, Attempt("psm6", <<>>, TRUE))
    /\ oret' = <<>>
    /\ opc' = "returned"
    /\ UNCHANGED <<temp_file, processed_path, otext, calls, cvars, wvars, rvars>>

\* etl.py:126-131  return text.strip()
OcrReturn ==
    /\ opc = "return"
    /\ oret' = Strip(otext)
    /\ opc' = "returned"
    /\ UNCHANGED <<temp_file, processed_path, otext, stages, calls, cvars, wvars, rvars>>

ONext ==
    \/ OcrCall
    \/ Preprocess
    \/ Stage1Ocr
    \/ Stage1Skip
    \/ Stage1Raise
    \/ Stage2Ocr
    \/ Stage2Skip
    \/ Stage2Raise
    \/ Stage3Ocr
    \/ Stage3Skip
    \/ Stage3Raise
    \/ OcrReturn

OInit ==
    OIdle /\ CIdle /\ RIdle

SpecOcr == OInit /\ [][ONext]_vars

\* ------------------------------------------- extract_text_from_image claims
\* C10: whenever extract_text_from_image has returned, also after OCR of the
\* preprocessed image raised, the temporary image file does not exist.
C10_TempFileRemovedOnReturn ==
    opc = "returned" => ~temp_file

\* position of a stage in the fallback chain
StageRank(st) == CASE st = "processed" -> 1 [] st = "original" -> 2 [] st = "psm6" -> 3

\* the attempt produced text that is not only whitespace
Textual(a) == ~a.raised /\ Strip(a.out) # <<>>

\* the attempts of this call are in the order of the chain, none twice
StagesInOrder ==
    \A j, k \in 1..Len(stages) :
        j < k => StageRank(stages[j].stage) < StageRank(stages[k].stage)

\* the original image is tried only when the preprocessed one gave no text or
\* was not tried, the alternate mode only after the original image gave none
StagesGated ==
    \A k \in 1..Len(stages) :
        /\ stages[k].stage = "original" =>
              \A j \in 1..(k - 1) : ~Textual(stages[j])
        /\ stages[k].stage = "psm6" =>
              /\ k > 1 /\ stages[k - 1].stage = "original"
              /\ ~stages[k - 1].raised /\ ~Textual(stages[k - 1])

\* the output of the first attempt that produced text, empty when none did
FirstTextual ==
    IF \E k \in 1..Len(stages) : Textual(stages[k])
    THEN stages[CHOOSE k \in 1..Len(stages) :
                   /\ Textual(stages[k])
                   /\ \A j \in 1..(k - 1) : ~Textual(stages[j])].out
    ELSE <<>>

\* C11 (as stated): the stages run in the order preprocessed, original,
\* alternate mode, each only when the one before gave no non-whitespace text,
\* and the returned text is the output of the first stage that gave such text,
\* or empty when none did.
C11_ReturnsFirstTextualOutput ==
    /\ StagesInOrder
    /\ StagesGated
    /\ opc = "returned" => oret = FirstTextual

\* C11 (amended): same order and gating; the returned text is the output of
\* the first stage that gave non-whitespace text with its leading and
\* trailing whitespace removed, or empty when none did.
C11_ReturnsFirstTextualOutputStripped ==
    /\ StagesInOrder
    /\ StagesGated
    /\ opc = "returned" => oret = Strip(FirstTextual)

\* all three stages ran and the third gave text surrounded by whitespace
C11_Witness ==
    /\ opc = "returned" /\ Len(stages) = 3
    /\ Textual(stages[3]) /\ oret # <<>> /\ oret # stages[3].out

\* ---------------------------------------------------------- run_etl claims
\* the ingested map this run loaded when it started
Loaded == LoadIngestedMap(at_start)
Logged(tag, j) == \E k \in 1..Len(log) : log[k] = <<tag, j>>
ChunksOf(fid) == {i \in 1..Len(all_chunks) : all_chunks[i].metadata.doc_id = fid}
InBatch(c) == \E i \in 1..Len(all_chunks) : all_chunks[i] = c
HasEntry(m, fid, v) == fid \in DOMAIN m /\ m[fid] = v
SameEntry(m1, m2, fid) ==
    /\ (fid \in DOMAIN m1) <=> (fid \in DOMAIN m2)
    /\ fid \in DOMAIN m1 => m1[fid] = m2[fid]
DirtyAtStart(f) == f.id # None /\ ~HasEntry(Loaded, f.id, f.modifiedTime)
LoopOver == pc \in {"index", "save", "done"} /\ "aborted" \notin Tags(log)

\* C1: when handing the batch to the index failed, the ingested map on disk after
\* the run has no entry that the map on disk before the run did not have.
C1_IndexFailureLeavesSyncState ==
    (pc = "done" /\ "index_failed" \in Tags(log)) =>
        \A fid \in DOMAIN LoadIngestedMap(persisted) :
            SameEntry(LoadIngestedMap(persisted), Loaded, fid)

\* C2: a listed file whose marker equals its entry in the map loaded at the start
\* of the run is not downloaded, not extracted or chunked, and has no chunk in
\* the batch.
C2_UnchangedFileSkipped ==
    \A j \in 1..Len(files) :
        (j < fi /\ files[j].id # None
               /\ HasEntry(Loaded, files[j].id, files[j].modifiedTime)) =>
            /\ ~Logged("downloading", j)
            /\ ~Logged("dl_ok", j) /\ ~Logged("dl_error", j)
            /\ ~Logged("extract", j)
            /\ ChunksOf(files[j].id) = {}

\* witness of C2: a run has passed a file that was up to date when it started
C2_Witness ==
    \E j \in 1..Len(files) :
        /\ j < fi /\ files[j].id # None
        /\ HasEntry(Loaded, files[j].id, files[j].modifiedTime)
        /\ Logged("skip_unchanged", j)

\* the loop has dealt with file j: it printed something about it
Handled(j) == \E k \in 1..Len(log) : log[k][2] = j /\ log[k][1] \in FileTags

\* C3: the loop over the listing passes no file by and ends only after the last
\* one; when it is over every file that was dirty has been given to
\* download_file, and every dirty file whose own download succeeded has been
\* extracted and chunked and has all its chunks, annotated, in the batch,
\* whatever happened to the files before and after it.
C3_FailureIsolation ==
    /\ (pc = "loop" \/ LoopOver) =>
          /\ fi <= Len(files) + 1
          /\ \A j \in 1..Len(files) : Handled(j) <=> j < fi
    /\ LoopOver =>
          /\ fi = Len(files) + 1
          /\ \A j \in 1..Len(files) :
                DirtyAtStart(files[j]) =>
                    /\ Logged("downloading", j)
                    /\ Logged("dl_ok", j) =>
                          LET f == files[j]
                              cs == AnnotateAll(DocToChunks(File(drive[f.id].content), f.id,
                                                            LocalPath(f), DefaultChunkSize), f)
                          IN /\ Logged("extract", j)
                             /\ \A k \in 1..Len(cs) : InBatch(cs[k])

\* witness of C3: the loop is over, a file failed (no id, or its download), and
\* a dirty file listed after it has its chunks in the batch
C3_Witness ==
    /\ LoopOver
    /\ \E j, k \in 1..Len(files) :
          /\ j < k
          /\ Logged("dl_error", j)
          /\ Logged("processed", k) /\ ChunksOf(files[k].id) # {}

\* C4: a file whose download failed in this run has no chunk in the batch and its
\* entry of the ingested map is as it was loaded, so the file is still dirty.
C4_FailedDownloadLeavesFileDirty ==
    \A j \in 1..Len(files) :
        Logged("dl_error", j) =>
            /\ ChunksOf(files[j].id) = {}
            /\ SameEntry(ingested, Loaded, files[j].id)
            /\ ~HasEntry(ingested, files[j].id, files[j].modifiedTime)

\* this run follows a run that reached its loop and saved its map, the Drive
\* folder (ids, markers, contents) is as that run saw it, and in this run no
\* download and no save failed
SecondRunSameFolder ==
    /\ pc = "done" /\ runs >= 1
    /\ prev.drive = drive
    /\ "aborted" \notin prev.tags /\ "save_failed" \notin prev.tags
    /\ "dl_error" \notin Tags(log) /\ "save_failed" \notin Tags(log)

DocId == "doc1"
DocPath == "doc1.txt"

CInit ==
    /\ text \in SeqsUpTo(Chars, MaxTextLen)
    /\ chunk_size \in 1..MaxChunkSize
    /\ overlap \in {5 * k : k \in 0..MaxOverlapSteps}
    /\ words = <<>>
    /\ wi = 1
    /\ ck = ChunkInit
    /\ cpc = "start"

\* etl.py:175-187
ChunkBegin ==
    /\ cpc = "start"
    /\ IF Strip(text) = <<>>
       THEN cpc' = "done" /\ words' = words
       ELSE cpc' = "loop" /\ words' = Split(Normalize(text))
    /\ UNCHANGED <<text, chunk_size, overlap, wi, ck, ovars, wvars, rvars>>

\* etl.py:190-192
ChunkAppend ==
    /\ cpc = "loop" /\ wi <= Len(words)
    /\ Fits(ck, words[wi], chunk_size)
    /\ ck' = ChunkStep(ck, words[wi], DocId, DocPath, chunk_size, overlap)
    /\ wi' = wi + 1
    /\ UNCHANGED <<text, chunk_size, overlap, words, cpc, ovars, wvars, rvars>>

\* etl.py:193-207
ChunkClose ==
    /\ cpc = "loop" /\ wi <= Len(words)
    /\ ~Fits(ck, words[wi], chunk_size)
    /\ ck' = ChunkStep(ck, words[wi], DocId, DocPath, chunk_size, overlap)
    /\ wi' = wi + 1
    /\ UNCHANGED <<text, chunk_size, overlap, words, cpc, ovars, wvars, rvars>>

\* etl.py:209-221
ChunkFinish ==
    /\ cpc = "loop" /\ wi > Len(words)
    /\ ck' = [ck EXCEPT !.chunks = ChunkFlush(ck, DocId, DocPath)]
    /\ cpc' = "done"
    /\ UNCHANGED <<text, chunk_size, overlap, words, wi, ovars, wvars, rvars>>

CNext == ChunkBegin \/ ChunkAppend \/ ChunkClose \/ ChunkFinish

ChunkerInit ==
    CInit /\ OIdle /\ RIdle

SpecChunk == ChunkerInit /\ [][CNext]_vars

\* --------------------------------------------------------- chunker claims
Last(s) == s[Len(s)]
IsSuffix(s, t) == Len(s) <= Len(t) /\ s = SubSeq(t, Len(t) - Len(s) + 1, Len(t))
ChunkWords(c) == Split(c.text)
LongWord(w) == Len(w) > chunk_size
Closing == cpc = "loop" /\ wi <= Len(words) /\ ~Fits(ck, words[wi], chunk_size)

\* the last Min(k, Len(ws)) words of ws
LastWords(ws, k) == SubSeq(ws, Len(ws) - Min(k, Len(ws)) + 1, Len(ws))

\* C6: whenever a chunk is closed, the next chunk starts with exactly the last
\* floor(overlap / 10) words of the closed chunk (all of them if it has fewer),
\* followed by the word that triggered the split.
C6_SeedIsFloorOfOverlap ==
    [][Closing =>
          ck'.current_chunk =
              LastWords(ck.current_chunk, overlap \div OverlapDivisor) \o <<words[wi]>>]_vars

\* the words of chunk i that were not copied from chunk i - 1
CoreWords(cs, i) ==
    IF i = 1 THEN ChunkWords(cs[1])
    ELSE LET seed == Len(OverlapSeed(ChunkWords(cs[i - 1]), overlap))
             ws == ChunkWords(cs[i])
         IN SubSeq(ws, seed + 1, Len(ws))

\* C7: chunk 0 whole and, for each later chunk, the words after its overlap seed,
\* joined in chunk-index order with single spaces, give exactly the
\* whitespace-normalized source text.
C7_CoreTextReconstructsSource ==
    cpc = "done" =>
        Join([i \in 1..Len(ck.chunks) |->
                 IF i = 1 THEN ck.chunks[1].text ELSE Join(CoreWords(ck.chunks, i))])
            = Normalize(text)

\* C8 as claimed: every word longer than chunk_size is the whole text of some chunk.
C8_LongWordAloneInChunk ==
    cpc = "done" =>
        \A j \in 1..Len(words) :
            LongWord(words[j]) => \E i \in 1..Len(ck.chunks) : ck.chunks[i].text = words[j]

\* C8 as amended: a word longer than chunk_size always closes the running chunk
\* and starts the next one untruncated, preceded only by words repeated from the
\* chunk just closed; no word is ever added after it, so it is the last word of
\* the chunk that is emitted for it; and the chunker terminates: every step of
\* the loop consumes one of the finitely many words or finishes.
C8_LongWordEndsItsChunk ==
    [][/\ (cpc = "loop" => (wi' = wi + 1 /\ wi <= Len(words)) \/ cpc' = "done")
       /\ (cpc = "loop" /\ wi <= Len(words) /\ LongWord(words[wi])) =>
             /\ Closing
             /\ Last(ck'.current_chunk) = words[wi]
             /\ (Len(ck'.current_chunk) = 1) <=> (wi = 1)
             /\ IsSuffix(SubSeq(ck'.current_chunk, 1, Len(ck'.current_chunk) - 1),
                         ck.current_chunk)
       /\ (cpc = "loop" /\ ck.current_chunk # <<>> /\ LongWord(Last(ck.current_chunk))) =>
             /\ Len(ck'.chunks) = Len(ck.chunks) + 1
             /\ Last(ck'.chunks).text = Join(ck.current_chunk)]_vars

\* witness of C8: a finished run in which a long word was emitted after a seed
C8_Witness ==
    /\ cpc = "done"
    /\ \E i \in 1..Len(ck.chunks) :
          LET ws == ChunkWords(ck.chunks[i])
          IN Len(ws) >= 2 /\ LongWord(Last(ws)) /\ i < Len(ck.chunks)

\* C9: every chunk that doc_to_chunks returns has a non-empty text.
C9_ChunkTextNonEmpty ==
    \A i \in 1..Len(ck.chunks) : ck.chunks[i].text # <<>>
====
